---- MODULE Spec2Model ----
(***************************************************************************)
(* Model of dynamics_generation.py: the Dynamics class (symbolic           *)
(* derivation of f, A, B; the substitution evaluator get; the code         *)
(* generator generate_functions) and the generated module                  *)
(* dynamics_functions.py (set_parameters and the evaluators f, A, B).      *)
(*                                                                         *)
(* Symbolic expressions are exact Laurent polynomials: a finite set of     *)
(* terms, each a rational coefficient <<num, den>> and a monomial, the set *)
(* of <<symbol, exponent>> pairs with a non-zero exponent.  The norm       *)
(* sqrt(u0**2. + u1**2. + u2**2.) is the atom UMAG, differentiated by the  *)
(* chain rule.  Matrices are functions over 0-based indices, as in the     *)
(* source.  Text is a sequence of one-character strings.                   *)
(***************************************************************************)
EXTENDS Integers, Sequences, FiniteSets, TLC

\* ------------------------------------------------------------------ bounds
\* get is tried with state vectors of NX-LenSlack .. NX+LenSlack components
\* and control vectors of NU-LenSlack .. NU+LenSlack components.
LenSlack == 1

\* ----------------------------------------------------------------- symbols
NX == 14
NU == 3

M_ == 1
R0 == 2
V0 == 5
Q0 == 8
W0 == 12
U0 == 15
S_ == 18
ALPHA == 19
RTB0 == 20
GX == 23
J00 == 26
J11 == 27
J22 == 28
UMAG == 29
NSym == 29

StateSyms == 1..14
ControlSyms == 15..17
ConstantSyms == 19..28

\* ---------------------------------------------------------------- rationals
RECURSIVE GCD(_, _)
GCD(a, b) == IF b = 0 THEN a ELSE GCD(b, a % b)

AbsI(n) == IF n < 0 THEN -n ELSE n

Rat(n, d) ==
    LET g == GCD(AbsI(n), AbsI(d))
        sg == IF d < 0 THEN -1 ELSE 1
    IN  << (sg * n) \div g, (sg * d) \div g >>

RInt(n) == << n, 1 >>
RAdd(a, b) == Rat(a[1] * b[2] + b[1] * a[2], a[2] * b[2])
RMul(a, b) == Rat(a[1] * b[1], a[2] * b[2])
RNeg(a) == << -a[1], a[2] >>
RInv(a) == Rat(a[2], a[1])

RECURSIVE RPow(_, _)
RPow(a, k) ==
    IF k = 0 THEN RInt(1)
    ELSE IF k < 0 THEN RPow(RInv(a), -k)
    ELSE RMul(a, RPow(a, k - 1))

RECURSIVE Isqrt(_, _)
Isqrt(n, r) == IF (r + 1) * (r + 1) > n THEN r ELSE Isqrt(n, r + 1)

\* --------------------------------------------------------------- monomials
MExp(e, i) == IF \E p \in e : p[1] = i
              THEN (CHOOSE p \in e : p[1] = i)[2]
              ELSE 0

MMul(e1, e2) ==
    LET S == {p[1] : p \in e1 \cup e2}
    IN  {p \in {<< i, MExp(e1, i) + MExp(e2, i) >> : i \in S} : p[2] # 0}

\* a total order on monomials, used to print the terms of a sum in one order
MLess(e1, e2) ==
    LET diff == {i \in {p[1] : p \in e1 \cup e2} : MExp(e1, i) # MExp(e2, i)}
    IN  /\ diff # {}
        /\ LET i == CHOOSE i \in diff : \A j \in diff : i <= j
           IN  MExp(e1, i) > MExp(e2, i)

\* -------------------------------------------------------------- polynomials
RECURSIVE SumC(_)
SumC(S) == IF S = {} THEN RInt(0)
           ELSE LET r == CHOOSE r \in S : TRUE
                IN  RAdd(r.c, SumC(S \ {r}))

\* collect like terms and drop the terms whose coefficient cancels to 0
Normalize(raws) ==
    LET es == {r.e : r \in raws}
        all == {[c |-> SumC({r \in raws : r.e = e}), e |-> e] : e \in es}
    IN  {t \in all : t.c[1] # 0}

PZero == {}
PConst(r) == IF r[1] = 0 THEN {} ELSE {[c |-> r, e |-> {}]}
PInt(n) == PConst(RInt(n))
PSym(i) == {[c |-> RInt(1), e |-> {<< i, 1 >>}]}

PAdd(p, q) ==
    Normalize({[c |-> t.c, e |-> t.e, tag |-> 1] : t \in p}
              \cup {[c |-> t.c, e |-> t.e, tag |-> 2] : t \in q})

PScale(r, p) == IF r[1] = 0 THEN {} ELSE {[c |-> RMul(r, t.c), e |-> t.e] : t \in p}
PNeg(p) == PScale(RInt(-1), p)
PSub(p, q) == PAdd(p, PNeg(q))

PMul(p, q) ==
    Normalize({[c |-> RMul(pr[1].c, pr[2].c), e |-> MMul(pr[1].e, pr[2].e), tag |-> pr]
               : pr \in p \X q})

PSq(p) == PMul(p, p)

\* d p / d sym; UMAG = sqrt(u0^2 + u1^2 + u2^2) depends on the controls:
\* d UMAG^k / d u_i = k * u_i * UMAG^(k-2)
PDiff(p, i) ==
    LET direct == {[c |-> RMul(t.c, RInt(MExp(t.e, i))),
                    e |-> MMul(t.e, {<< i, -1 >>}),
                    tag |-> << t, 1 >>]
                   : t \in {t \in p : MExp(t.e, i) # 0}}
        chain == IF i \in ControlSyms
                 THEN {[c |-> RMul(t.c, RInt(MExp(t.e, UMAG))),
                        e |-> MMul(t.e, {<< i, 1 >>, << UMAG, -2 >>}),
                        tag |-> << t, 2 >>]
                       : t \in {t \in p : MExp(t.e, UMAG) # 0}}
                 ELSE {}
    IN  Normalize(direct \cup chain)

PSyms(p) == UNION {{pr[1] : pr \in t.e} : t \in p}

\* ----------------------------------------------------------------- matrices
Vec3(a, b, c) == [i \in 0..2 |-> IF i = 0 THEN a ELSE IF i = 1 THEN b ELSE c]
Vec4(a, b, c, d) ==
    [i \in 0..3 |-> IF i = 0 THEN a ELSE IF i = 1 THEN b ELSE IF i = 2 THEN c ELSE d]

RECURSIVE DotUpTo(_, _, _)
DotUpTo(row, v, j) ==
    IF j < 0 THEN PZero ELSE PAdd(DotUpTo(row, v, j - 1), PMul(row[j], v[j]))

MatVec(Mx, v, rows, cols) == [i \in 0..(rows - 1) |-> DotUpTo(Mx[i], v, cols - 1)]
MatScale(r, Mx) == [i \in DOMAIN Mx |-> [j \in DOMAIN Mx[i] |-> PScale(r, Mx[i][j])]]
\* a sum that drops its second operand
VecAdd_first(a, b) == a

VecAdd(a, b) == [i \in DOMAIN a |-> PAdd(a[i], b[i])]
VecSub(a, b) == [i \in DOMAIN a |-> PSub(a[i], b[i])]

cross(a, b) ==
    Vec3(PSub(PMul(a[1], b[2]), PMul(a[2], b[1])),
         PSub(PMul(a[2], b[0]), PMul(a[0], b[2])),
         PSub(PMul(a[0], b[1]), PMul(a[1], b[0])))

Om(w) ==
    LET w0 == w[0]
        w1 == w[1]
        w2 == w[2]
    IN  [i \in 0..3 |->
          IF i = 0 THEN Vec4(PZero, PNeg(w0), PNeg(w1), PNeg(w2))
          ELSE IF i = 1 THEN Vec4(w0, PZero, w2, PNeg(w1))
          ELSE IF i = 2 THEN Vec4(w1, PNeg(w2), PZero, w0)
          ELSE Vec4(w2, w1, PNeg(w0), PZero)]

cIB(q) ==
    LET q0 == q[0]
        q1 == q[1]
        q2 == q[2]
        q3 == q[3]
        two == RInt(2)
        one == PInt(1)
    IN  [i \in 0..2 |->
          IF i = 0 THEN
            Vec3(PSub(one, PScale(two, PAdd(PSq(q2), PSq(q3)))),
                 PScale(two, PAdd(PMul(q1, q2), PMul(q0, q3))),
                 PScale(two, PSub(PMul(q1, q3), PMul(q0, q2))))
          ELSE IF i = 1 THEN
            Vec3(PScale(two, PSub(PMul(q1, q2), PMul(q0, q3))),
                 PSub(one, PScale(two, PAdd(PSq(q1), PSq(q3)))),
                 PScale(two, PAdd(PMul(q2, q3), PMul(q0, q1))))
          ELSE
            Vec3(PScale(two, PAdd(PMul(q1, q3), PMul(q0, q2))),
                 PScale(two, PSub(PMul(q2, q3), PMul(q0, q1))),
                 PSub(one, PScale(two, PAdd(PSq(q1), PSq(q2)))))]

\* 1/p for a single-term p
PInvTerm(p) ==
    LET t == CHOOSE t \in p : TRUE
    IN  {[c |-> RInv(t.c), e |-> {<< pr[1], -pr[2] >> : pr \in t.e}]}

\* J.pinv_solve(b) for the diagonal, invertible inertia tensors of the model:
\* the pseudo-inverse is diag(1/J[i][i]) and the free term (I - J+ J) is 0
pinv_solve(J, b) == [i \in 0..2 |-> PMul(PInvTerm(J[i][i]), b[i])]

jacobian(fv, syms, cols) ==
    [i \in DOMAIN fv |-> [j \in 0..(cols - 1) |-> PDiff(fv[i], syms[j])]]

\* ------------------------------------------------- Dynamics.__init__ (setup)
\* self.x, self.u, self.s: the symbol ordering
x_syms == [n \in 0..(NX - 1) |-> n + 1]
u_syms == [n \in 0..(NU - 1) |-> U0 + n]
s_sym == S_

\* constants is None: the constants are free symbols, J is diagonal
SymbolicConstants ==
    [alpha |-> PSym(ALPHA),
     rTB |-> Vec3(PSym(RTB0), PSym(RTB0 + 1), PSym(RTB0 + 2)),
     g |-> Vec3(PSym(GX), PSym(GX + 1), PSym(GX + 2)),
     J |-> [i \in 0..2 |-> [j \in 0..2 |->
              IF i = j THEN PSym(J00 + i) ELSE PZero]]]

\* constants given: the values of the mapping (J diagonal: Jd is its diagonal)
NumericConstants(c) ==
    [alpha |-> PConst(c.alpha),
     rTB |-> [i \in 0..2 |-> PConst(c.rTB[i + 1])],
     g |-> [i \in 0..2 |-> PConst(c.g[i + 1])],
     J |-> [i \in 0..2 |-> [j \in 0..2 |->
              IF i = j THEN PConst(c.Jd[i + 1]) ELSE PZero]]]

MatPScale(p, Mx) == [i \in DOMAIN Mx |-> [j \in DOMAIN Mx[i] |-> PMul(p, Mx[i][j])]]

\* the dynamics vector f (dx / dt)
assemble_f(K) ==
    LET v == [i \in 0..2 |-> PSym(V0 + i)]
        q == [i \in 0..3 |-> PSym(Q0 + i)]
        w == [i \in 0..2 |-> PSym(W0 + i)]
        u == [i \in 0..2 |-> PSym(U0 + i)]
        inv_m == {[c |-> RInt(1), e |-> {<< M_, -1 >>}]}
        u_mag == PSym(UMAG)
        dv == VecAdd(MatVec(MatPScale(inv_m, cIB(q)), u, 3, 3), K.g)
        dq == MatVec(MatScale(Rat(1, 2), Om(w)), q, 4, 4)
        dw == pinv_solve(K.J, VecSub(cross(K.rTB, u), cross(w, MatVec(K.J, w, 3, 3))))
    IN  [n \in 0..(NX - 1) |->
          IF n = 0 THEN PMul(PNeg(K.alpha), u_mag)
          ELSE IF n < 4 THEN v[n - 1]
          ELSE IF n < 7 THEN dv[n - 4]
          ELSE IF n < 11 THEN dq[n - 7]
          ELSE dw[n - 11]]

\* A = s * df/dx, B = s * df/du
linearize_A(fv) == MatPScale(PSym(s_sym), jacobian(fv, x_syms, NX))
linearize_B(fv) == MatPScale(PSym(s_sym), jacobian(fv, u_syms, NU))

fSymbolic == assemble_f(SymbolicConstants)
ASymbolic == linearize_A(fSymbolic)
BSymbolic == linearize_B(fSymbolic)

\* ----------------------------------------------------------------- text
\* a text is a sequence of one-character strings
Digits == << "0", "1", "2", "3", "4", "5", "6", "7", "8", "9" >>
Letters == {"a", "b", "c", "d", "e", "f", "g", "h", "i", "j", "k", "l", "m", "n",
            "o", "p", "q", "r", "s", "t", "u", "v", "w", "x", "y", "z", "_",
            "A", "B", "J", "T", "D"}
IdentChars == Letters \cup {Digits[i] : i \in 1..10}

RECURSIVE Flat(_)
Flat(ss) == IF ss = << >> THEN << >> ELSE Head(ss) \o Flat(Tail(ss))

RECURSIVE Join(_, _)
Join(ss, sep) ==
    IF ss = << >> THEN << >>
    ELSE IF Len(ss) = 1 THEN ss[1]
    ELSE ss[1] \o sep \o Join(Tail(ss), sep)

\* str(n) of a non-negative integer
RECURSIVE str_nat(_)
str_nat(n) == IF n < 10 THEN << Digits[n + 1] >>
              ELSE str_nat(n \div 10) \o << Digits[(n % 10) + 1] >>

\* the printed magnitude of a coefficient: an integer, a half as the float it
\* is in the source (1./2.), any other ratio as num/den.  A float constant of
\* a numeric instance prints its decimal digits instead; the text is 0 for
\* the exact zero only either way, and a coefficient holds no name
str_coeff(c) ==
    IF c[2] = 1 THEN str_nat(c[1])
    ELSE IF c[2] = 2 THEN str_nat(c[1] \div 2) \o << ".", "5" >>
    ELSE str_nat(c[1]) \o << "/" >> \o str_nat(c[2])

\* the printed name of a symbol
SymName(i) ==
    IF i = M_ THEN << "m" >>
    ELSE IF i < V0 THEN << "r" >> \o str_nat(i - R0)
    ELSE IF i < Q0 THEN << "v" >> \o str_nat(i - V0)
    ELSE IF i < W0 THEN << "q" >> \o str_nat(i - Q0)
    ELSE IF i < U0 THEN << "w" >> \o str_nat(i - W0)
    ELSE IF i < S_ THEN << "u" >> \o str_nat(i - U0)
    ELSE IF i = S_ THEN << "s" >>
    ELSE IF i = ALPHA THEN << "a", "l", "p", "h", "a" >>
    ELSE IF i < GX THEN << "r", "T", "B" >> \o str_nat(i - RTB0)
    ELSE IF i = GX THEN << "g", "x" >>
    ELSE IF i = GX + 1 THEN << "g", "y" >>
    ELSE IF i = GX + 2 THEN << "g", "z" >>
    ELSE IF i < UMAG THEN << "J" >> \o str_nat(i - J00) \o str_nat(i - J00)
    ELSE << "s", "q", "r", "t", "(", "u", "0", "*", "*", "2", ".", "0", " ", "+", " ", "u", "1", "*", "*", "2", ".", "0", " ", "+", " ", "u", "2", "*", "*", "2", ".", "0", ")" >>

str_factor(i, k) ==
    IF k = 1 THEN SymName(i)
    ELSE IF k > 1 THEN SymName(i) \o << "*", "*" >> \o str_nat(k)
    ELSE SymName(i) \o << "*", "*", "(", "-" >> \o str_nat(-k) \o << ")" >>

RECURSIVE Factors(_, _)
Factors(e, i) ==
    IF i > NSym THEN << >>
    ELSE IF MExp(e, i) = 0 THEN Factors(e, i + 1)
    ELSE << str_factor(i, MExp(e, i)) >> \o Factors(e, i + 1)

str_term(t) ==
    LET mag == << AbsI(t.c[1]), t.c[2] >>
        fs == Factors(t.e, 1)
    IN  IF fs = << >> THEN str_coeff(mag)
        ELSE IF mag = << 1, 1 >> THEN Join(fs, << "*" >>)
        ELSE str_coeff(mag) \o << "*" >> \o Join(fs, << "*" >>)

RECURSIVE TermSeq(_)
TermSeq(p) ==
    IF p = {} THEN << >>
    ELSE LET t == CHOOSE t \in p : \A o \in p \ {t} : MLess(t.e, o.e)
         IN  << t >> \o TermSeq(p \ {t})

RECURSIVE str_terms(_)
str_terms(ts) ==
    IF ts = << >> THEN << >>
    ELSE (IF Head(ts).c[1] < 0 THEN << " ", "-", " " >> ELSE << " ", "+", " " >>)
         \o str_term(Head(ts)) \o str_terms(Tail(ts))

\* str(expr): the exact zero prints as 0, anything else as its sum of terms
str_expr(p) ==
    IF p = {} THEN << "0" >>
    ELSE LET ts == TermSeq(p)
         IN  (IF Head(ts).c[1] < 0 THEN << "-" >> ELSE << >>)
             \o str_term(Head(ts)) \o str_terms(Tail(ts))

\* s.replace(old, new): every non-overlapping occurrence, leftmost first
RECURSIVE replace(_, _, _)
replace(s, old, new) ==
    LET k == Len(old)
        hits == {i \in 1..(Len(s) - k + 1) : SubSeq(s, i, i + k - 1) = old}
    IN  IF hits = {} THEN s
        ELSE LET i == CHOOSE i \in hits : \A j \in hits : i <= j
             IN  SubSeq(s, 1, i - 1) \o new
                 \o replace(SubSeq(s, i + k, Len(s)), old, new)

\* the identifiers of a text: the maximal runs of identifier characters that
\* start with a letter
Identifiers(s) ==
    LET starts == {i \in 1..Len(s) :
                     /\ s[i] \in Letters
                     /\ (i = 1 \/ s[i - 1] \notin IdentChars)}
        end(i) == CHOOSE j \in i..Len(s) :
                     /\ \A k \in i..j : s[k] \in IdentChars
                     /\ (j = Len(s) \/ s[j + 1] \notin IdentChars)
    IN  {SubSeq(s, i, end(i)) : i \in starts}

\* ------------------------------------------------- generate_functions (text)
tab == << " ", " ", " ", " " >>
NoText == << >>

\* one line of dynamics_functions.py: its text, and what the text was put
\* together from: the evaluator it belongs to, the names it binds, what it
\* reads (the attribute of self of a constants line, the parameter an
\* unpacking line unpacks) and its index (the matrix index of an assignment,
\* the number of targets of an unpacking, the dimensions of the zeros)
Line(kind, fn, text, binds, reads, idx) ==
    [kind |-> kind, fn |-> fn, text |-> text, binds |-> binds, reads |-> reads,
     idx |-> idx]

Plain(kind, text) == Line(kind, "", text, {}, NoText, << >>)

\* functions = {'A': self.A, 'B': self.B, 'f': self.f}, in insertion order
functions == << "A", "B", "f" >>

Range(sq) == {sq[i] : i \in DOMAIN sq}

header ==
    << Line("doc", "", << "\"", "\"", "\"", " ", "T", "h", "i", "s", " ", "w", "a", "s", " ", "g", "e", "n", "e", "r", "a", "t", "e", "d", " ", "b", "y", " ", "d", "y", "n", "a", "m", "i", "c", "s", "_", "g", "e", "n", "e", "r", "a", "t", "i", "o", "n", ".", "p", "y", " ", "\"", "\"", "\"" >>, {}, NoText, << >>),
       Plain("blank", NoText),
       Line("import", "", << "f", "r", "o", "m", " ", "n", "u", "m", "p", "y", " ", "i", "m", "p", "o", "r", "t", " ", "s", "q", "r", "t" >>, {<< "s", "q", "r", "t" >>}, NoText, << >>),
       Line("import", "", << "i", "m", "p", "o", "r", "t", " ", "n", "u", "m", "p", "y", " ", "a", "s", " ", "n", "p" >>, {<< "n", "p" >>}, NoText, << >>),
       Plain("blank", NoText),
       Plain("class", << "c", "l", "a", "s", "s", " ", "D", "y", "n", "a", "m", "i", "c", "s", ":" >>),
       Plain("blank", NoText) >>

set_parameters_string ==
    << Plain("setdef", tab \o << "d", "e", "f", " ", "s", "e", "t", "_", "p", "a", "r", "a", "m", "e", "t", "e", "r", "s", "(", "s", "e", "l", "f", ",", " ", "p", "a", "r", "m", "s", ")", ":" >>),
       Plain("setbody", tab \o tab \o << "f", "o", "r", " ", "n", "a", "m", "e", ",", " ", "v", "a", "l", " ", "i", "n", " ", "p", "a", "r", "m", "s", ".", "i", "t", "e", "m", "s", "(", ")", ":" >>),
       Plain("setbody", tab \o tab \o tab \o << "s", "e", "t", "a", "t", "t", "r", "(", "s", "e", "l", "f", ",", " ", "n", "a", "m", "e", ",", " ", "v", "a", "l", ")" >>) >>

\* the parameters of the evaluator: f takes no s
\* every evaluator declared as f is, without the scaling parameter
def_params_xu(name) == << << "s", "e", "l", "f" >>, << "x" >>, << "u" >> >>

def_params(name) ==
    IF name # "f" THEN << << "s", "e", "l", "f" >>, << "x" >>, << "u" >>, << "s" >> >>
    ELSE << << "s", "e", "l", "f" >>, << "x" >>, << "u" >> >>

def_line(name) ==
    Line("def", name,
         tab \o << "d", "e", "f", " " >> \o << name >> \o << "(" >> \o Join(def_params(name), << ",", " " >>) \o << ")", ":" >>,
         Range(def_params(name)), NoText, << >>)

variables_unpacking ==
    << [targets |-> [n \in 1..NX |-> SymName(n)], src |-> << "x" >>],
       [targets |-> [n \in 1..NU |-> SymName(U0 + n - 1)], src |-> << "u" >>] >>

constants_unpacking ==
    << [targets |-> << << "J" >> >>, attr |-> << "J" >>],
       [targets |-> << << "a", "l", "p", "h", "a" >> >>, attr |-> << "a", "l", "p", "h", "a" >>],
       [targets |-> << << "g", "x" >>, << "g", "y" >>, << "g", "z" >> >>, attr |-> << "g", "_", "I" >>],
       [targets |-> << << "r", "T", "B", "0" >>, << "r", "T", "B", "1" >>, << "r", "T", "B", "2" >> >>, attr |-> << "r", "T", "B" >>] >>

variables_lines(name) ==
    [k \in 1..Len(variables_unpacking) |->
       LET v == variables_unpacking[k]
       IN  Line("unpack", name,
                tab \o tab \o Join(v.targets, << ",", " " >>) \o << " ", "=", " " >> \o v.src,
                Range(v.targets), v.src, << Len(v.targets) >>)]

constants_lines(name) ==
    [k \in 1..Len(constants_unpacking) |->
       LET c == constants_unpacking[k]
       IN  Line("const", name,
                tab \o tab \o Join(c.targets, << ",", " " >>) \o << " ", "=", " ", "s", "e", "l", "f", "." >> \o c.attr,
                Range(c.targets), c.attr, << >>)]

\* matrix.shape and matrix[n, m]; f is a 14 x 1 column
shape(name, mat) ==
    IF name = "f" THEN << Cardinality(DOMAIN mat), 1 >>
    ELSE << Cardinality(DOMAIN mat), Cardinality(DOMAIN mat[0]) >>

entry(name, mat, n, m) == IF name = "f" THEN mat[n] ELSE mat[n][m]

\* the pre-zeroed output array: np.zeros(shape) and, for f, np.zeros((rows,))
zeros_dims(name, mat) ==
    IF name # "f" THEN shape(name, mat) ELSE << shape(name, mat)[1] >>

zeros_line(name, mat) ==
    LET sh == shape(name, mat)
        arg == IF name # "f"
               THEN << "(" >> \o str_nat(sh[1]) \o << ",", " " >> \o str_nat(sh[2]) \o << ")" >>
               ELSE << "(" >> \o str_nat(sh[1]) \o << ",", ")" >>
    IN  Line("zeros", name,
             tab \o tab \o << name >> \o << "m", " ", "=", " ", "n", "p", ".", "z", "e", "r", "o", "s", "(" >> \o arg \o << ")" >>,
             {<< name, "m" >>}, NoText, zeros_dims(name, mat))

\* for n in range(rows): for m in range(cols): the indices in visiting order
\* the entries column by column
entry_order_columns(rows, cols) ==
    [k \in 1..(rows * cols) |-> << (k - 1) % rows, (k - 1) \div rows >>]

entry_order(rows, cols) ==
    [k \in 1..(rows * cols) |-> << (k - 1) \div cols, (k - 1) % cols >>]

\* a test of the first character only
emits_first(value) == Head(value) # "0"

\* if value != '0'
emits(value) == value # << "0" >>

\* the rewrite with both loops over range(2)
RECURSIVE rewrite_J_two(_, _)
rewrite_J_two(genline, k) ==
    IF k >= 2 * 2 THEN genline
    ELSE LET i == k \div 2
             j == k % 2
         IN  rewrite_J_two(replace(genline,
                                   << "J" >> \o str_nat(i) \o str_nat(j),
                                   << "J", "[" >> \o str_nat(i) \o << "," >> \o str_nat(j) \o << "]" >>),
                           k + 1)

\* for i in range(3): for j in range(3): genline = genline.replace(Jij, J[i,j])
RECURSIVE rewrite_J(_, _)
rewrite_J(genline, k) ==
    IF k >= 3 * 3 THEN genline
    ELSE LET i == k \div 3
             j == k % 3
         IN  rewrite_J(replace(genline,
                               << "J" >> \o str_nat(i) \o str_nat(j),
                               << "J", "[" >> \o str_nat(i) \o << "," >> \o str_nat(j) \o << "]" >>),
                       k + 1)

\* genline before the rewrite of the inertia names
genline_of(name, n, m, value) ==
    tab \o << name, "m" >>
    \o (IF name # "f"
        THEN << "[" >> \o str_nat(n) \o << ",", " " >> \o str_nat(m) \o << "]", "=" >>
        ELSE << "[" >> \o str_nat(n) \o << "]", "=" >>)
    \o value

\* the concatenation of pieces[lo..hi]
RECURSIVE FlatRange(_, _, _)
FlatRange(pieces, lo, hi) ==
    IF lo > hi THEN << >>
    ELSE IF lo = hi THEN pieces[lo]
    ELSE LET mid == (lo + hi) \div 2
         IN  FlatRange(pieces, lo, mid) \o FlatRange(pieces, mid + 1, hi)

\* the assignment lines, one for every visited entry that is not skipped
assign_lines(name, mat, order) ==
    LET pieces ==
          [k \in 1..Len(order) |->
             LET n == order[k][1]
                 m == order[k][2]
                 value == str_expr(entry(name, mat, n, m))
             IN  IF emits(value)
                 THEN << Line("assign", name,
                              tab \o rewrite_J(genline_of(name, n, m, value), 0),
                              {}, NoText, << n, m >>) >>
                 ELSE << >>]
    IN  FlatRange(pieces, 1, Len(order))

return_line(name) ==
    Line("return", name, tab \o tab \o << "r", "e", "t", "u", "r", "n", " " >> \o << name, "m" >>, {}, NoText, << >>)

evaluator_lines(name, mat) ==
    << Plain("blank", NoText), def_line(name) >>
    \o variables_lines(name)
    \o << Line("blank", name, NoText, {}, NoText, << >>) >>
    \o constants_lines(name)
    \o << Line("blank", name, NoText, {}, NoText, << >>) >>
    \o << zeros_line(name, mat) >>
    \o assign_lines(name, mat, entry_order(shape(name, mat)[1], shape(name, mat)[2]))
    \o << return_line(name) >>

matrix_of(name, fm, Am, Bm) == IF name = "A" THEN Am ELSE IF name = "B" THEN Bm ELSE fm

RECURSIVE evaluators_from(_, _, _, _)
evaluators_from(k, fm, Am, Bm) ==
    IF k > Len(functions) THEN << >>
    ELSE evaluator_lines(functions[k], matrix_of(functions[k], fm, Am, Bm))
         \o evaluators_from(k + 1, fm, Am, Bm)

\* the whole text written to dynamics_functions.py
generated_text(fm, Am, Bm) ==
    header \o set_parameters_string \o evaluators_from(1, fm, Am, Bm)

\* ------------------------------------------------------------ get (helpers)
\* the float of an entry in which a zero factor meets a division by zero.
\* The values are substituted all at once here; substituted one after the
\* other, as subs does, such an entry can also end as a finite float.  It
\* converts to a float either way
NaN == << 0, 0 >>

\* a substitution list that also gives every constant symbol the value 1
substitutions_constants(xs, us, ss, xi, ui, si) ==
    [i \in {xs[n] : n \in DOMAIN xs} |-> xi[(CHOOSE n \in DOMAIN xs : xs[n] = i) + 1]]
    @@ [i \in {us[n] : n \in DOMAIN us} |-> ui[(CHOOSE n \in DOMAIN us : us[n] = i) + 1]]
    @@ (ss :> si)
    @@ (UMAG :> RInt(Isqrt(ui[1][1] * ui[1][1] + ui[2][1] * ui[2][1]
                           + ui[3][1] * ui[3][1], 0)))
    @@ [i \in ConstantSyms |-> RInt(1)]

\* the substitution list of get: self.x[n] -> xi[n, 0], self.u[n] -> ui[n],
\* self.s -> si; the norm of u takes its value with the controls
substitutions(xs, us, ss, xi, ui, si) ==
    [i \in {xs[n] : n \in DOMAIN xs} |-> xi[(CHOOSE n \in DOMAIN xs : xs[n] = i) + 1]]
    @@ [i \in {us[n] : n \in DOMAIN us} |-> ui[(CHOOSE n \in DOMAIN us : us[n] = i) + 1]]
    @@ (ss :> si)
    @@ (UMAG :> RInt(Isqrt(ui[1][1] * ui[1][1] + ui[2][1] * ui[2][1]
                           + ui[3][1] * ui[3][1], 0)))

RECURSIVE ProdPow(_, _)
ProdPow(prs, env) ==
    IF prs = {} THEN RInt(1)
    ELSE LET pr == CHOOSE pr \in prs : TRUE
         IN  RMul(RPow(env[pr[1]], pr[2]), ProdPow(prs \ {pr}, env))

\* one term after substitution: its kind (0 * (1/0) is nan, (1/0) alone is
\* zoo, a zero factor makes it vanish), its coefficient and the symbols left
subs_term(t, env) ==
    LET bound == {pr \in t.e : pr[1] \in DOMAIN env}
        zeroNeg == \E pr \in bound : pr[2] < 0 /\ env[pr[1]][1] = 0
        zeroPos == \E pr \in bound : pr[2] > 0 /\ env[pr[1]][1] = 0
    IN  IF zeroNeg THEN [k |-> IF zeroPos THEN "nan" ELSE "zoo", c |-> NaN, e |-> {}, tag |-> t]
        ELSE IF zeroPos THEN [k |-> "zero", c |-> RInt(0), e |-> {}, tag |-> t]
        ELSE [k |-> "fin", c |-> RMul(t.c, ProdPow(bound, env)), e |-> t.e \ bound, tag |-> t]

\* expr.subs(substitutions): nan, zoo, or the polynomial in the symbols left
subs(p, env) ==
    LET ts == {subs_term(t, env) : t \in p}
    IN  IF \E t \in ts : t.k = "nan" THEN [k |-> "nan", p |-> PZero]
        ELSE IF \E t \in ts : t.k = "zoo" THEN [k |-> "zoo", p |-> PZero]
        ELSE [k |-> "poly", p |-> Normalize({t \in ts : t.k = "fin"})]

\* float(value) succeeds for a number and for nan
is_float(v) == v.k = "nan" \/ (v.k = "poly" /\ PSyms(v.p) = {})
to_float(v) ==
    IF v.k = "nan" THEN NaN
    ELSE IF v.p = {} THEN RInt(0)
    ELSE (CHOOSE t \in v.p : TRUE).c

indices(name, mat) ==
    {<< n, m >> \in (0..(shape(name, mat)[1] - 1)) \X (0..(shape(name, mat)[2] - 1)) : TRUE}

\* ---------------------------------------------------------------- inputs
key_alpha == << "a", "l", "p", "h", "a" >>
key_rTB == << "r", "T", "B" >>
key_J == << "J" >>
key_g == << "g" >>
key_g_I == << "g", "_", "I" >>

\* constants = None
None == [none |-> TRUE, keys |-> {}, alpha |-> RInt(0),
         rTB |-> << >>, Jd |-> << >>, g |-> << >>]

\* the mapping of the specification's scenario: alpha = 0.1,
\* rTB = (-0.01, 0, 0), J = 0.01 * I, g = (-1, 0, 0)
ConstantsScenario ==
    [none |-> FALSE, keys |-> {key_alpha, key_rTB, key_J, key_g},
     alpha |-> Rat(1, 10),
     rTB |-> << Rat(-1, 100), RInt(0), RInt(0) >>,
     Jd |-> << Rat(1, 100), Rat(1, 100), Rat(1, 100) >>,
     g |-> << RInt(-1), RInt(0), RInt(0) >>]

\* another mapping with an invertible diagonal J
ConstantsOther ==
    [none |-> FALSE, keys |-> {key_alpha, key_rTB, key_J, key_g},
     alpha |-> RInt(2),
     rTB |-> << RInt(0), RInt(1), RInt(-1) >>,
     Jd |-> << RInt(1), RInt(2), RInt(3) >>,
     g |-> << RInt(0), RInt(2), RInt(-3) >>]

\* the mapping built by the script's main block: gravity under the key g_I
ConstantsMain ==
    [ConstantsScenario EXCEPT !.keys = {key_alpha, key_rTB, key_J, key_g_I}]

Mappings == {ConstantsScenario, ConstantsOther, ConstantsMain}

IntVec(v) == [i \in DOMAIN v |-> RInt(v[i])]

\* state samples (m, r, v, q, w), all with a non-zero mass
XScenario == IntVec(<< 1, 0, 0, 0, 0, 0, 0, 1, 0, 0, 0, 0, 0, 0 >>)
XStill == IntVec(<< 2, 1, 2, 3, 1, -1, 2, 0, 1, 0, 0, 0, 0, 0 >>)
XSpinning == IntVec(<< 2, 1, 2, 3, 1, -1, 2, 0, 1, 0, 0, 0, 0, 3 >>)
XSamples == {XScenario, XStill, XSpinning}

\* control samples, with an integer norm
UZero == IntVec(<< 0, 0, 0 >>)
UThrust == IntVec(<< 0, 0, 2 >>)
USamples == {UZero, UThrust}

SSamples == {RInt(0), RInt(1)}

Padding(k) == [i \in 1..k |-> RInt(7)]

\* one sample cut or padded by up to LenSlack components
XWrong ==
    {SubSeq(XStill, 1, NX - k) : k \in 1..LenSlack}
    \cup {XStill \o Padding(k) : k \in 1..LenSlack}

UWrong ==
    {SubSeq(UZero, 1, NU - k) : k \in 1..LenSlack}
    \cup {UZero \o Padding(k) : k \in 1..LenSlack}

\* the arguments get is tried with: the baseline (XStill, UZero, 1) with one
\* argument replaced at a time
GetInputs ==
    {<< xi, UZero, RInt(1) >> : xi \in XSamples \cup XWrong}
    \cup {<< XStill, ui, RInt(1) >> : ui \in USamples \cup UWrong}
    \cup {<< XStill, UZero, si >> : si \in SSamples}

\* the lengths the generated evaluators are tried with, one wrong at a time
EvalInputs ==
    {<< nx, NU >> : nx \in (NX - LenSlack)..(NX + LenSlack)}
    \cup {<< NX, nu >> : nu \in (NU - LenSlack)..(NU + LenSlack)}

Names == {"f", "A", "B"}

\* ------------------------------------------------------------------ state
VARIABLES
    mode,       \* "none" before construction, then "symbolic" or "numeric"
    bound,      \* the constants argument the instance was constructed with
    x, u, s,    \* self.x, self.u, self.s: the symbol ordering
    f, A, B,    \* self.f, self.A, self.B
    file,       \* the lines of dynamics_functions.py, << >> while not written
    attrs,      \* the attributes stored on the generated module's Dynamics
    outcome     \* the last operation, its arguments and what it returned

vars == << mode, bound, x, u, s, f, A, B, file, attrs, outcome >>

NoFile == << >>

Outcome(op, name, arg, status, value) ==
    [op |-> op, name |-> name, arg |-> arg, status |-> status, value |-> value]

Init ==
    /\ mode = "none"
    /\ bound = None
    /\ x = << >>
    /\ u = << >>
    /\ s = 0
    /\ f = << >>
    /\ A = << >>
    /\ B = << >>
    /\ file = NoFile
    /\ attrs = {}
    /\ outcome = Outcome("none", "", << >>, "ok", << >>)

\* ------------------------------------------------------- Dynamics.__init__
RequiredKeys == {key_alpha, key_rTB, key_J, key_g}

\* alpha, rTB, J, g as the derivation uses them
bind_constants(constants) ==
    IF constants.none THEN SymbolicConstants ELSE NumericConstants(constants)

Dynamics_init(constants) ==
    /\ mode = "none"
    /\ IF ~constants.none /\ ~(RequiredKeys \subseteq constants.keys)
       THEN \* constants['g'] raises KeyError: no instance is made
            /\ outcome' = Outcome("__init__", "", constants.keys, "KeyError", << >>)
            /\ UNCHANGED << mode, bound, x, u, s, f, A, B, file, attrs >>
       ELSE /\ mode' = IF constants.none THEN "symbolic" ELSE "numeric"
            /\ bound' = constants
            /\ x' = x_syms
            /\ u' = u_syms
            /\ s' = s_sym
            /\ f' = assemble_f(bind_constants(constants))
            /\ A' = linearize_A(f')
            /\ B' = linearize_B(f')
            \* if generate_code: self.generate_functions()
            /\ file' = IF constants.none THEN generated_text(f', A', B') ELSE file
            /\ outcome' = Outcome("__init__", "", constants.keys, "ok", << >>)
            /\ UNCHANGED attrs

\* ------------------------------------------------------------ Dynamics.get
\* np.array(matrix).astype(np.float64) of the substituted matrix
astype_float64(name, arg, matrix) ==
    IF \E ix \in DOMAIN matrix : ~is_float(matrix[ix])
    THEN Outcome("get", name, arg, "TypeError", << >>)
    ELSE Outcome("get", name, arg, "ok", [ix \in DOMAIN matrix |-> to_float(matrix[ix])])

\* function.subs(substitutions), entry by entry, held as a table
subs_matrix(name, mat, env) ==
    [ix \in indices(name, mat) |-> subs(entry(name, mat, ix[1], ix[2]), env)] @@ << >>

get_outcome(name, xi, ui, si) ==
    IF Len(xi) < Cardinality(DOMAIN x) \/ Len(ui) < Cardinality(DOMAIN u)
    THEN \* xi[n, 0] or ui[n] is out of range
         Outcome("get", name, << xi, ui, si >>, "IndexError", << >>)
    ELSE astype_float64(name, << xi, ui, si >>,
                        subs_matrix(name, matrix_of(name, f, A, B),
                                    substitutions(x, u, s, xi, ui, si)))

\* a get that stores the substituted f back into the instance
get_inplace(name, xi, ui, si) ==
    /\ mode # "none"
    /\ outcome' = get_outcome(name, xi, ui, si)
    /\ f' = IF name = "f" /\ outcome'.status # "IndexError"
            THEN [n \in DOMAIN f |-> subs(f[n], substitutions(x, u, s, xi, ui, si)).p]
            ELSE f
    /\ UNCHANGED << mode, bound, x, u, s, A, B, file, attrs >>

get(name, xi, ui, si) ==
    /\ mode # "none"
    /\ outcome' = get_outcome(name, xi, ui, si)
    /\ UNCHANGED << mode, bound, x, u, s, f, A, B, file, attrs >>

\* --------------------------------------------- Dynamics.generate_functions
generate_functions ==
    /\ mode # "none"
    /\ file' = generated_text(f, A, B)
    /\ outcome' = Outcome("generate_functions", "", << >>, "ok", << >>)
    /\ UNCHANGED << mode, bound, x, u, s, f, A, B, attrs >>

\* ---------------------------------- dynamics_functions.py (generated module)
\* set_parameters(parms): setattr(self, name, val) for every item
set_parameters(parms) ==
    /\ file # NoFile
    /\ attrs' = attrs \cup parms.keys
    /\ outcome' = Outcome("set_parameters", "", parms.keys, "ok", << >>)
    /\ UNCHANGED << mode, bound, x, u, s, f, A, B, file >>

LinesOf(text, name, kind) ==
    {text[i] : i \in {i \in DOMAIN text : text[i].fn = name /\ text[i].kind = kind}}

\* the names bound where the assignments of evaluator name run
BoundNames(text, name) ==
    UNION {ln.binds : ln \in LinesOf(text, "", "import") \cup LinesOf(text, name, "def")
                             \cup LinesOf(text, name, "unpack")
                             \cup LinesOf(text, name, "const")
                             \cup LinesOf(text, name, "zeros")}

\* what a call of the generated evaluator with a state of nx components and a
\* control of nu components ends in
evaluator_status(name, nx, nu) ==
    IF \E ln \in LinesOf(file, name, "unpack") :
          ln.idx[1] # (IF ln.reads = << "x" >> THEN nx ELSE nu)
    THEN "ValueError"
    ELSE IF \E ln \in LinesOf(file, name, "const") : ln.reads \notin attrs
    THEN "AttributeError"
    ELSE IF \E ln \in LinesOf(file, name, "assign") :
               ~(Identifiers(ln.text) \subseteq BoundNames(file, name))
    THEN "NameError"
    ELSE "ok"

evaluator(name, nx, nu) ==
    /\ file # NoFile
    /\ outcome' = Outcome("evaluator", name, << nx, nu >>, evaluator_status(name, nx, nu), << >>)
    /\ UNCHANGED << mode, bound, x, u, s, f, A, B, file, attrs >>

\* ------------------------------------------------------------------- Next
Next ==
    \/ \E constants \in {None} \cup Mappings : Dynamics_init(constants)
    \/ \E name \in Names, in \in GetInputs : get(name, in[1], in[2], in[3])
    \/ generate_functions
    \/ \E parms \in Mappings : set_parameters(parms)
    \/ \E name \in Names, in \in EvalInputs : evaluator(name, in[1], in[2])

Spec == Init /\ [][Next]_vars

\* ================================================================== claims
SpecKeys == {key_alpha, key_rTB, key_J, key_g}

Occurs(text, pat) ==
    \E i \in 1..(Len(text) - Len(pat) + 1) : SubSeq(text, i, i + Len(pat) - 1) = pat

JName(i, j) == << "J" >> \o str_nat(i) \o str_nat(j)
JIndexed(i, j) == << "J", "[" >> \o str_nat(i) \o << "," >> \o str_nat(j) \o << "]" >>
JNames == {JName(i, j) : i \in 0..2, j \in 0..2}

\* the file has just been written; the file takes a new value in no other
\* state, so what holds of it here holds of it for as long as it is kept
Written == file # NoFile /\ outcome.op \in {"__init__", "generate_functions"}

AssignIndexes(name) == {i \in DOMAIN file : file[i].fn = name /\ file[i].kind = "assign"}

\* ---- C1
\* C1 (as claimed): once the generated module is configured with a mapping
\* whose keys are exactly alpha, rTB, J and g, a call of an evaluator with a
\* 14-component state and a 3-component control finds every constant it
\* reads: it does not end in an AttributeError.
C1_ConfiguredEvaluatorFindsConstants ==
    (outcome.op = "evaluator" /\ outcome.arg = << NX, NU >> /\ attrs = SpecKeys)
        => outcome.status # "AttributeError"

\* ---- C2
NonZeroMask(name) ==
    LET mat == matrix_of(name, f, A, B)
    IN  {ix \in indices(name, mat) : entry(name, mat, ix[1], ix[2]) # PZero}

ZerosIndexes(name) == {i \in DOMAIN file : file[i].fn = name /\ file[i].kind = "zeros"}

RECURSIVE unrewrite_J(_, _)
unrewrite_J(text, k) ==
    IF k >= 9 THEN text
    ELSE unrewrite_J(replace(text, JIndexed(k \div 3, k % 3), JName(k \div 3, k % 3)), k + 1)

GenlineOf(ln) ==
    LET mat == matrix_of(ln.fn, f, A, B)
    IN  tab \o genline_of(ln.fn, ln.idx[1], ln.idx[2],
                          str_expr(entry(ln.fn, mat, ln.idx[1], ln.idx[2])))

RewrittenRight(ln, genline) ==
    /\ \A nm \in JNames : ~Occurs(ln.text, nm)
    /\ unrewrite_J(ln.text, 0) = genline
    /\ Identifiers(genline) \cap {id \in Identifiers(genline) : Head(id) = "J"} \subseteq JNames
    /\ Identifiers(ln.text) \ {<< "J" >>} = Identifiers(genline) \ JNames
    /\ (<< "J" >> \in Identifiers(ln.text)) = (Identifiers(genline) \cap JNames # {})

\* C3: in every assignment line of the file as it is written no bare Jij name is left,
\* every Jij of the expression has become J[i,j] with the same i and j
\* (putting the names back gives the line as it was before the rewrite), and
\* the other names of the line are the ones it had: only complete Jij names
\* were replaced.
C3_InertiaNamesIndexed ==
    Written =>
      \A i \in DOMAIN file :
        file[i].kind = "assign" => RewrittenRight(file[i], GenlineOf(file[i]))

C3_Witness ==
    /\ Written
    /\ mode = "symbolic"
    /\ \E i \in AssignIndexes("f") :
          /\ file[i].idx = << 11, 0 >>
          /\ Occurs(file[i].text, JIndexed(0, 0))
          /\ Occurs(file[i].text, JIndexed(1, 1))
          /\ Occurs(file[i].text, JIndexed(2, 2))

\* ---- C4
\* C4 (as claimed): on an instance constructed with a constants mapping the
\* generated module file is never written.
C4_NumericNeverWrites == mode = "numeric" => file = NoFile

\* ---- C5
DefIndexes(name) == {i \in DOMAIN file : file[i].fn = name /\ file[i].kind = "def"}

RowMajorBefore(a, b) == a[1] < b[1] \/ (a[1] = b[1] /\ a[2] < b[2])

OrderedText ==
    Written =>
      /\ \A name \in Names : Cardinality(DefIndexes(name)) = 1
      /\ \A a \in DefIndexes("A"), b \in DefIndexes("B"), c \in DefIndexes("f") :
            a < b /\ b < c
      /\ \A name \in Names : \A i, j \in AssignIndexes(name) :
            i < j => RowMajorBefore(file[i].idx, file[j].idx)

C6_MatricesFrozen ==
    [][mode # "none" =>
         /\ f' = f /\ A' = A /\ B' = B
         /\ x' = x /\ u' = u /\ s' = s]_vars

C6_Witness ==
    /\ mode # "none"
    /\ outcome.op = "get"
    /\ outcome.name = "f"
    /\ outcome.status = "ok"

\* ---- C7
\* C7 (as claimed): get returns no array when the state does not have
\* exactly 14 components or the control does not have exactly 3.
C7_DimensionsChecked ==
    (/\ outcome.op = "get"
     /\ (Len(outcome.arg[1]) # NX \/ Len(outcome.arg[2]) # NU))
        => outcome.status # "ok"

Spinning(xi) == Len(xi) < NX \/ \E k \in 0..2 : xi[W0 + k][1] # 0

ZeroVec(v, lo, hi) == \A k \in lo..hi : v[k][1] = 0

\* C9: on a numeric instance (diagonal invertible J), for a state with
\* non-zero mass and zero angular velocity and a zero control, the array
\* get returns for f is (0, v, g, 0, 0); for the scenario's constants and
\* state it is (0, 0,0,0, -1,0,0, 0,0,0,0, 0,0,0).
C9_RestingDynamics ==
    (/\ mode = "numeric"
     /\ outcome.op = "get"
     /\ outcome.name = "f"
     /\ outcome.status = "ok"
     /\ outcome.arg[1][M_][1] # 0
     /\ ZeroVec(outcome.arg[1], W0, W0 + 2)
     /\ ZeroVec(outcome.arg[2], 1, NU))
    => /\ DOMAIN outcome.value = (0..(NX - 1)) \X {0}
       /\ outcome.value[<< 0, 0 >>] = RInt(0)
       /\ \A k \in 0..2 : outcome.value[<< 1 + k, 0 >>] = outcome.arg[1][V0 + k]
       /\ \A k \in 0..2 : outcome.value[<< 4 + k, 0 >>] = bound.g[k + 1]
       /\ \A n \in 7..13 : outcome.value[<< n, 0 >>] = RInt(0)
       /\ (bound = ConstantsScenario /\ outcome.arg[1] = XScenario) =>
             \A n \in 0..13 : outcome.value[<< n, 0 >>] = RInt(IF n = 4 THEN -1 ELSE 0)

C9_Witness ==
    /\ mode = "numeric"
    /\ bound = ConstantsOther
    /\ outcome.op = "get"
    /\ outcome.name = "f"
    /\ outcome.status = "ok"
    /\ outcome.arg[1] = XStill
    /\ outcome.arg[2] = UZero

\* ---- C10
Preamble(name) ==
    UNION {file[i].binds : i \in {i \in DOMAIN file :
              file[i].fn = name /\ file[i].kind \in {"def", "unpack", "const"}}}

\* C10: every name an assignment line of the file as it is written refers to is bound
\* before the line runs: by the parameters and the unpacking preamble of its
\* evaluator (and sqrt by the import, the output array by the zeros line);
\* no line of f refers to s; no call of an evaluator ends in a NameError.
C10_NamesBound ==
    /\ Written =>
         \A i \in DOMAIN file :
           file[i].kind = "assign" =>
             /\ Identifiers(file[i].text) \ {<< "s", "q", "r", "t" >>, << file[i].fn, "m" >>}
                   \subseteq Preamble(file[i].fn)
             /\ Identifiers(file[i].text) \subseteq BoundNames(file, file[i].fn)
             /\ file[i].fn = "f" => << "s" >> \notin Identifiers(file[i].text)
    /\ outcome.op = "evaluator" => outcome.status # "NameError"

C10_Witness ==
    /\ mode = "symbolic"
    /\ outcome.op = "evaluator"
    /\ outcome.name = "A"
    /\ outcome.status = "ok"

====
